---- MODULE Spec2Model ----
(***************************************************************************)
(* State-machine model of the 3D Toy Generation API (src/main.py): the     *)
(* three upload endpoints, the four service stages they call, the scratch  *)
(* file cleanup of their finally blocks, and DELETE /cleanup, running as   *)
(* coroutines of one asyncio event loop over a shared file system.         *)
(***************************************************************************)
EXTENDS Integers, Sequences, FiniteSets, TLC

\* ---------------------------------------------------------------- bounds
\* Number of handler coroutines that may be alive at once.
MaxReq == 2
\* Number of requests accepted in one behaviour.
MaxStarted == 2
\* The clock advances at most this many times.
MaxTicks == 1
\* Number of failures the environment injects in one behaviour: a raising
\* upload read, model call, file export or unlink.
MaxFaults == 1

\* ------------------------------------------------------ program constants
\* file_age > 3600 in cleanup_files.
AGE_LIMIT == 3600
\* The clock advances in steps of the retention threshold, so that ages
\* below, at and above the threshold all occur.
TickStep == AGE_LIMIT

OUTPUT_DIR == "outputs"
TEMP_DIR == "temp"

Req == 1..MaxReq

\* The endpoints that take uploads.
UploadEps == {"generate-toy", "generate-image-only", "image-to-3d"}

\* Declared media types of an upload (UploadFile.content_type).
ContentTypes == {"image/png", "text/plain"}

\* The output_format form field: the four documented values.
OutputFormats == {"gaussian", "mesh", "radiance_field", "all"}

\* The representations the reconstruction pipeline knows.
KnownFormats == {"gaussian", "radiance_field", "mesh"}

\* content_type.startswith('image/')
StartsWithImage(ct) == ct = "image/png"

VARIABLES
    now,        \* time.time(), in seconds
    fs,         \* the files of OUTPUT_DIR and TEMP_DIR: records [path, mtime]
    nextId,     \* number of uuid4() values drawn so far
    loop,       \* the coroutine the event loop is running, 0 when it is free
    task,       \* task[r]: the locals and position of handler coroutine r
    started,    \* number of requests accepted so far
    idLog,      \* the identifiers used for output files, in order of generation
    overwrote,  \* TRUE once a write to OUTPUT_DIR hit a path that existed
    lastSweep,  \* the last DELETE /cleanup that returned: [ok, time, fs]
    faults      \* number of failures injected so far

vars == <<now, fs, nextId, loop, task, started, idLog, overwrote, lastSweep,
          faults>>

\* ------------------------------------------------------------ file system
Path(dir, kind, id) == [dir |-> dir, kind |-> kind, id |-> id]

\* Path.exists()
Exists(F, p) == \E f \in F : f.path = p

\* open(p, "wb") / save(p): creates or truncates p, stamping its mtime.
WriteFile(F, p, t) == {f \in F : f.path # p} \cup {[path |-> p, mtime |-> t]}

\* f.write() on a handle opened earlier: the path is not re-created when it
\* was unlinked in between.
WriteOpen(F, p, t) == IF Exists(F, p) THEN WriteFile(F, p, t) ELSE F

\* Path.unlink()
Unlink(F, P) == {f \in F : f.path \notin P}

PathsIn(F, dir) == {f.path : f \in {g \in F : g.path.dir = dir}}

\* ------------------------------------------------------------- responses
NoResp == [status |-> 0, detail |-> "", model_id |-> -1, files |-> {},
           formats |-> <<>>, count |-> -1]

Error(code, msg) == [NoResp EXCEPT !.status = code, !.detail = msg]

IdleTask == [pc |-> "idle", ep |-> "none", person_ct |-> "none",
             style_ct |-> "none", output_format |-> "none",
             temp_files |-> <<>>, calls |-> <<>>, resp |-> NoResp,
             toy_image |-> -1, formats |-> <<>>, outputs |-> {},
             glb_raised |-> FALSE, unlink_failed |-> {}, written |-> {},
             current_time |-> -1, listing |-> {}, count |-> 0, fs0 |-> {},
             repeat |-> FALSE]

\* The files an earlier run of the service left behind: a synthesized image
\* and a scratch file whose unlink failed, both written at time 0.
Leftover ==
    {[path |-> Path(OUTPUT_DIR, "generated_toy", 0), mtime |-> 0],
     [path |-> Path(TEMP_DIR, "person", 1), mtime |-> 0]}

\* The service starts (mkdir(exist_ok=True) keeps what the directories hold)
\* one retention period after those files were written.
Init ==
    /\ now = AGE_LIMIT
    /\ fs = Leftover
    /\ nextId = 2
    /\ loop = 0
    /\ task = [r \in Req |-> IdleTask]
    /\ started = 0
    /\ idLog = <<0>>
    /\ overwrote = FALSE
    /\ lastSweep = [ok |-> FALSE, time |-> -1, fs |-> {}]
    /\ faults = 0


\* ------------------------------------------------------------ event loop
\* (Faulty variant: the model calls and the sweep's loop are awaited too.)
Yields_atCalls(pc) ==
    pc \in {"idle", "read_person", "read_style", "read_input",
            "person", "style", "synth", "recon", "visit_out", "visit_temp"}

\* The positions at which a handler coroutine is suspended: the awaits of the
\* upload reads. (A coroutine that has not started or has returned is "idle".)
Yields(pc) == pc \in {"idle", "read_person", "read_style", "read_input"}

\* Coroutine r may take a step when the loop is free or is running r.
CanRun(r) == loop \in {0, r}

\* Coroutine r moves to the locals t; the loop keeps running r unless r is
\* now suspended.
Step(r, t) ==
    /\ task' = [task EXCEPT ![r] = t]
    /\ loop' = IF Yields(t.pc) THEN 0 ELSE r

\* uuid.uuid4(): the k-th identifier drawn after the ones drawn so far.
\* Identifiers are 122 random bits; a draw is modelled as never repeating.
uuid4(k) == nextId + k

Range(s) == {s[i] : i \in 1..Len(s)}

\* The environment makes k more calls raise.
Inject(k) ==
    /\ faults + k <= MaxFaults
    /\ faults' = faults + k

\* A new request is accepted by the lowest idle coroutine slot.
Accept(r) ==
    /\ loop = 0
    /\ started < MaxStarted
    /\ task[r].pc = "idle"
    /\ \A q \in Req : q < r => task[q].pc # "idle"
    /\ started' = started + 1

\* The exception of an upload read, as the endpoint reports it: wrapped by
\* generate_toy_endpoint, unhandled (the framework's 500) in the other two.
ReadFailure(ep) ==
    IF ep = "generate-toy" THEN Error(500, "Generation failed")
    ELSE Error(500, "Internal Server Error")

\* POST /generate-toy up to its first await.
StartGenerateToy(r) ==
    /\ Accept(r)
    /\ \E pct \in ContentTypes, sct \in ContentTypes :
        LET t0 == [IdleTask EXCEPT !.ep = "generate-toy", !.person_ct = pct,
                                   !.style_ct = sct]
            person == Path(TEMP_DIR, "person", uuid4(0))
            style == Path(TEMP_DIR, "style", uuid4(1))
        IN  IF ~StartsWithImage(pct)
            THEN /\ Step(r, [t0 EXCEPT !.pc = "finally",
                        !.resp = Error(400, "Person file must be an image")])
                 /\ UNCHANGED <<fs, nextId>>
            ELSE IF ~StartsWithImage(sct)
            THEN /\ Step(r, [t0 EXCEPT !.pc = "finally",
                        !.resp = Error(400, "Style guide file must be an image")])
                 /\ UNCHANGED <<fs, nextId>>
            ELSE /\ Step(r, [t0 EXCEPT !.pc = "read_person",
                                       !.temp_files = <<person, style>>])
                 /\ fs' = WriteFile(fs, person, now)
                 /\ nextId' = nextId + 2
    /\ UNCHANGED <<now, idLog, overwrote, lastSweep, faults>>

\* POST /generate-image-only up to its first await: no validation.
StartGenerateImageOnly(r) ==
    /\ Accept(r)
    /\ \E pct \in ContentTypes, sct \in ContentTypes :
        LET person == Path(TEMP_DIR, "person", uuid4(0))
            style == Path(TEMP_DIR, "style", uuid4(1))
        IN  /\ Step(r, [IdleTask EXCEPT !.ep = "generate-image-only",
                            !.person_ct = pct, !.style_ct = sct,
                            !.pc = "read_person",
                            !.temp_files = <<person, style>>])
            /\ fs' = WriteFile(fs, person, now)
            /\ nextId' = nextId + 2
    /\ UNCHANGED <<now, idLog, overwrote, lastSweep, faults>>

\* POST /image-to-3d up to its await: no validation. (person_ct holds the
\* declared type of its one upload, image.)
StartImageTo3d(r) ==
    /\ Accept(r)
    /\ \E ct \in ContentTypes :
        LET input == Path(TEMP_DIR, "input", uuid4(0))
        IN  /\ Step(r, [IdleTask EXCEPT !.ep = "image-to-3d",
                            !.person_ct = ct,
                            !.pc = "read_input", !.temp_files = <<input>>])
            /\ fs' = WriteFile(fs, input, now)
            /\ nextId' = nextId + 1
    /\ UNCHANGED <<now, idLog, overwrote, lastSweep, faults>>

\* The person upload has been read (or the read raised): write it, open the
\* style scratch file and await the style upload.
AfterReadPerson(r) ==
    /\ CanRun(r)
    /\ task[r].pc = "read_person"
    /\ LET t == task[r] IN
        \/ /\ Step(r, [t EXCEPT !.pc = "finally", !.resp = ReadFailure(t.ep)])
           /\ fs' = fs
           /\ Inject(1)
        \/ /\ Step(r, [t EXCEPT !.pc = "read_style"])
           /\ Inject(0)
           /\ fs' = WriteFile(WriteOpen(fs, t.temp_files[1], now),
                              t.temp_files[2], now)
    /\ UNCHANGED <<now, nextId, started, idLog, overwrote, lastSweep>>

\* The style upload has been read (or the read raised).
AfterReadStyle(r) ==
    /\ CanRun(r)
    /\ task[r].pc = "read_style"
    /\ LET t == task[r] IN
        \/ /\ Step(r, [t EXCEPT !.pc = "finally", !.resp = ReadFailure(t.ep)])
           /\ fs' = fs
           /\ Inject(1)
        \/ /\ Step(r, [t EXCEPT !.pc = "person"])
           /\ Inject(0)
           /\ fs' = WriteOpen(fs, t.temp_files[2], now)
    /\ UNCHANGED <<now, nextId, started, idLog, overwrote, lastSweep>>

\* The upload of /image-to-3d has been read (or the read raised).
AfterReadInput(r) ==
    /\ CanRun(r)
    /\ task[r].pc = "read_input"
    /\ LET t == task[r] IN
        \/ /\ Step(r, [t EXCEPT !.pc = "finally", !.resp = ReadFailure(t.ep)])
           /\ fs' = fs
           /\ Inject(1)
        \/ /\ Step(r, [t EXCEPT !.pc = "recon"])
           /\ Inject(0)
           /\ fs' = WriteOpen(fs, t.temp_files[1], now)
    /\ UNCHANGED <<now, nextId, started, idLog, overwrote, lastSweep>>

\* ---------------------------------------------------------- service stages
\* The detail of the HTTPException each service method raises.
ErrDetail(stage) ==
    CASE stage = "analyze_person_image" -> "Error analyzing person image"
      [] stage = "analyze_toy_style" -> "Error analyzing toy style"
      [] stage = "generate_toy_image" -> "Error generating toy image"
      [] OTHER -> "Error generating 3D model"

\* A call that raises although the file it opens is there is a failure the
\* environment injects; a call on a missing file raises by itself.
Raises(ok, present) == Inject(IF ~ok /\ present THEN 1 ELSE 0)

\* One invocation of a service method and whether it returned.
Call(stage, ok) == [stage |-> stage, ok |-> ok]

\* (Faulty variant: the exception of a stage is swallowed.)
AfterStage_continue(ok, nextPc) == nextPc

\* Where a handler goes after a stage: on to the next statement when the
\* stage returned, to the finally block when it raised.
AfterStage(ok, nextPc) == IF ok THEN nextPc ELSE "finally"

\* The response after a stage: the raised HTTPException propagates unchanged.
StageResp(t, stage, ok) == IF ok THEN t.resp ELSE Error(500, ErrDetail(stage))

\* toy_service.analyze_person_image(person_temp_path); it returns only if
\* Image.open finds the scratch file.
AnalyzePerson(r) ==
    /\ CanRun(r)
    /\ task[r].pc = "person"
    /\ LET t == task[r]
           stage == "analyze_person_image"
       IN \E ok \in BOOLEAN :
            /\ ok => Exists(fs, t.temp_files[1])
            /\ Raises(ok, Exists(fs, t.temp_files[1]))
            /\ Step(r, [t EXCEPT !.pc = AfterStage(ok, "style"),
                                 !.calls = Append(@, Call(stage, ok)),
                                 !.resp = StageResp(t, stage, ok)])
    /\ UNCHANGED <<now, fs, nextId, started, idLog, overwrote, lastSweep>>

\* toy_service.analyze_toy_style(style_temp_path)
AnalyzeStyle(r) ==
    /\ CanRun(r)
    /\ task[r].pc = "style"
    /\ LET t == task[r]
           stage == "analyze_toy_style"
       IN \E ok \in BOOLEAN :
            /\ ok => Exists(fs, t.temp_files[2])
            /\ Raises(ok, Exists(fs, t.temp_files[2]))
            /\ Step(r, [t EXCEPT !.pc = AfterStage(ok, "synth"),
                                 !.calls = Append(@, Call(stage, ok)),
                                 !.resp = StageResp(t, stage, ok)])
    /\ UNCHANGED <<now, fs, nextId, started, idLog, overwrote, lastSweep>>

\* The body of a handler's 200 response.
Success(msg) == [NoResp EXCEPT !.status = 200, !.detail = msg]

\* unique_id of generate_toy_image: a fresh uuid4.
ToyImageId == uuid4(0)

\* toy_service.generate_toy_image(...): on success the first inline image of
\* the response is saved as OUTPUT_DIR/generated_toy_<uuid4>.png. The full
\* pipeline goes on to the reconstruction, /generate-image-only returns.
GenerateToyImage(r) ==
    /\ CanRun(r)
    /\ task[r].pc = "synth"
    /\ LET t == task[r]
           stage == "generate_toy_image"
           id == ToyImageId
           out == Path(OUTPUT_DIR, "generated_toy", id)
           next == IF t.ep = "generate-toy" THEN "recon" ELSE "finally"
       IN \/ /\ Step(r, [t EXCEPT !.pc = AfterStage(FALSE, next),
                                  !.calls = Append(@, Call(stage, FALSE)),
                                  !.resp = StageResp(t, stage, FALSE)])
             /\ Raises(FALSE, Exists(fs, t.temp_files[1]))
             /\ UNCHANGED <<fs, nextId, idLog, overwrote>>
          \/ /\ Exists(fs, t.temp_files[1])
             /\ Raises(TRUE, TRUE)
             /\ Step(r, [t EXCEPT !.pc = AfterStage(TRUE, next),
                                  !.calls = Append(@, Call(stage, TRUE)),
                                  !.toy_image = id,
                                  !.written = @ \cup {out},
                                  !.resp = IF t.ep = "generate-toy" THEN t.resp
                                           ELSE Success("image generated")])
             /\ fs' = WriteFile(fs, out, now)
             /\ overwrote' = (overwrote \/ Exists(fs, out))
             /\ idLog' = Append(idLog, id)
             /\ nextId' = nextId + 1
    /\ UNCHANGED <<now, started, lastSweep>>

\* ---------------------------------------------------------- reconstruction
\* (Faulty variant: the requested format is ignored.)
SelectFormats_alwaysAll(output_format) == <<"gaussian", "radiance_field", "mesh">>

\* formats of generate_3d_model: the fixed triple for "all", else the single
\* requested format.
SelectFormats(output_format) ==
    IF output_format = "all" THEN <<"gaussian", "radiance_field", "mesh">>
    ELSE <<output_format>>

\* The image generate_3d_model loads: the synthesized image in the full
\* pipeline, the scratch upload in /image-to-3d.
ReconInput(t) ==
    IF t.ep = "generate-toy" THEN Path(OUTPUT_DIR, "generated_toy", t.toy_image)
    ELSE t.temp_files[1]

\* (Faulty variant: the identifier is taken from the input image's name.)
ModelId_fromInput(t) == ReconInput(t).id

\* unique_id of generate_3d_model: a fresh uuid4.
ModelId(t) == uuid4(0)

\* "gaussian" in formats and outputs.get('gaussian')
WantsGaussian(formats, outs) ==
    "gaussian" \in Range(formats) /\ "gaussian" \in outs

\* "mesh" in formats and outputs.get('mesh')
WantsMesh(formats, outs) ==
    "mesh" \in Range(formats) /\ "mesh" \in outs

\* An entry of result_files.
Entry(key, path) == [key |-> key, path |-> path]

\* The "formats" field of the returned dict: the local variable formats.
ResultFormats(formats, outs, files) == formats

\* (Faulty variant: the export failure propagates.)
OnGlbError_raise(result) == Error(500, "Error generating 3D model")

\* The except clause around to_glb / glb.export: the failure is printed and
\* the result built so far is returned.
OnGlbError(result) == result

\* toy_service.generate_3d_model(image_path, output_format), then the
\* handler's return. The output_format form field is drawn here, where the
\* handler first reads it. outs is what the pipeline returned; plyOk, vidOk
\* and glbOk say whether save_ply, the preview rendering and the GLB export
\* returned.
Generate3D(r) ==
    /\ CanRun(r)
    /\ task[r].pc = "recon"
    /\ \E of \in OutputFormats :
       LET t == [task[r] EXCEPT !.output_format = of]
           stage == "generate_3d_model"
           formats == SelectFormats(t.output_format)
           id == ModelId(t)
           ply == Path(OUTPUT_DIR, "ply", id)
           video == Path(OUTPUT_DIR, "preview", id)
           glb == Path(OUTPUT_DIR, "glb", id)
       IN \/ \* Image.open or trellis_pipeline.run raises
             /\ Step(r, [t EXCEPT !.pc = AfterStage(FALSE, "finally"),
                                  !.calls = Append(@, Call(stage, FALSE)),
                                  !.formats = formats,
                                  !.resp = StageResp(t, stage, FALSE)])
             /\ Raises(FALSE, Exists(fs, ReconInput(t)))
             /\ UNCHANGED <<fs, nextId, idLog, overwrote>>
          \/ /\ Exists(fs, ReconInput(t))
             /\ \E outs \in SUBSET KnownFormats, plyOk \in BOOLEAN,
                   vidOk \in BOOLEAN, glbOk \in BOOLEAN :
                LET gauss == WantsGaussian(formats, outs)
                    plyW == gauss /\ plyOk
                    vidW == plyW /\ vidOk
                    raised == gauss /\ ~vidW
                    mesh == ~raised /\ WantsMesh(formats, outs)
                    glbW == mesh /\ glbOk
                    nRaised == (IF gauss /\ ~plyOk THEN 1 ELSE 0)
                               + (IF plyW /\ ~vidOk THEN 1 ELSE 0)
                               + (IF mesh /\ ~glbOk THEN 1 ELSE 0)
                    new == (IF plyW THEN {ply} ELSE {})
                           \cup (IF vidW THEN {video} ELSE {})
                           \cup (IF glbW THEN {glb} ELSE {})
                    gfiles == IF vidW
                              THEN {Entry("ply", ply), Entry("preview_video", video)}
                              ELSE {}
                    files == IF glbW THEN gfiles \cup {Entry("glb", glb)}
                             ELSE gfiles
                    result == [Success(IF t.ep = "generate-toy"
                                       THEN "Toy generation completed successfully"
                                       ELSE "ok")
                               EXCEPT !.model_id = id, !.files = gfiles,
                                      !.formats = ResultFormats(formats, outs, gfiles)]
                    final == IF glbW
                             THEN [result EXCEPT !.files = files,
                                     !.formats = ResultFormats(formats, outs, files)]
                             ELSE IF mesh THEN OnGlbError(result)
                             ELSE result
                IN  /\ Inject(nRaised)
                    /\ Step(r, [t EXCEPT !.pc = AfterStage(~raised, "finally"),
                                         !.calls = Append(@, Call(stage, ~raised)),
                                         !.formats = formats,
                                         !.outputs = outs,
                                         !.glb_raised = (mesh /\ ~glbOk),
                                         !.written = @ \cup new,
                                         !.resp = IF raised
                                                  THEN StageResp(t, stage, FALSE)
                                                  ELSE final])
                    /\ fs' = {f \in fs : f.path \notin new}
                             \cup {[path |-> p, mtime |-> now] : p \in new}
                    /\ overwrote' = (overwrote \/ \E p \in new : Exists(fs, p))
                    /\ idLog' = Append(idLog, id)
                    /\ nextId' = nextId + 1
    /\ UNCHANGED <<now, started, lastSweep>>

\* ------------------------------------------------------- scratch clean-up
\* (Faulty variant: only the first scratch path is registered.)
ScratchTargets_first(t) ==
    IF t.temp_files = <<>> THEN {} ELSE {t.temp_files[1]}

\* (Faulty variant: the files the request wrote are rolled back too.)
ScratchTargets_andOutputs(t) == Range(t.temp_files) \cup t.written

\* The paths the finally block of a handler tries to delete.
ScratchTargets(t) == Range(t.temp_files)

\* except: pass -- a failed unlink leaves the response as it was.
OnUnlinkError(resp, failed) == resp

\* The finally block: every scratch path that exists is unlinked; an unlink
\* may raise, which is swallowed. Then the response is sent.
Finally(r) ==
    /\ CanRun(r)
    /\ task[r].pc = "finally"
    /\ LET t == task[r]
           existing == {p \in ScratchTargets(t) : Exists(fs, p)}
       IN \E failed \in SUBSET existing :
            /\ Inject(Cardinality(failed))
            /\ fs' = Unlink(fs, existing \ failed)
            /\ Step(r, [t EXCEPT !.pc = "done",
                                 !.unlink_failed = failed,
                                 !.resp = OnUnlinkError(t.resp, failed)])
    /\ UNCHANGED <<now, nextId, started, idLog, overwrote, lastSweep>>

\* The handler returns (or its exception leaves it): the response is sent,
\* the coroutine is gone and the loop is free again.
Recycle(r) ==
    /\ CanRun(r)
    /\ task[r].pc = "done"
    /\ Step(r, IdleTask)
    /\ UNCHANGED <<now, fs, nextId, started, idLog, overwrote, lastSweep, faults>>

\* ------------------------------------------------------- retention sweep
\* (Faulty variant: the comparison is not strict.)
IsOld_atLeast(current_time, mtime) == current_time - mtime >= AGE_LIMIT

\* file_age = current_time - st_mtime; file_age > 3600
IsOld(current_time, mtime) == current_time - mtime > AGE_LIMIT

\* The directory a position of cleanup_files is working on.
SweepDir(pc) == IF pc \in {"list_out", "visit_out"} THEN OUTPUT_DIR ELSE TEMP_DIR

\* DELETE /cleanup: current_time = time.time(); count = 0. The handler has
\* no await: it keeps the loop until it returns.
StartCleanup(r) ==
    /\ Accept(r)
    /\ Step(r, [IdleTask EXCEPT !.ep = "cleanup", !.pc = "list_out",
                                !.current_time = now, !.count = 0, !.fs0 = fs,
                                !.repeat = (/\ lastSweep.ok
                                            /\ lastSweep.fs = fs
                                            /\ lastSweep.time = now)])
    /\ UNCHANGED <<now, fs, nextId, idLog, overwrote, lastSweep, faults>>

\* directory.glob("*"): the listing of the next directory.
ListDir(r) ==
    /\ CanRun(r)
    /\ task[r].pc \in {"list_out", "list_temp"}
    /\ LET t == task[r] IN
        Step(r, [t EXCEPT !.listing = PathsIn(fs, SweepDir(t.pc)),
                          !.pc = IF t.pc = "list_out" THEN "visit_out"
                                 ELSE "visit_temp"])
    /\ UNCHANGED <<now, fs, nextId, started, idLog, overwrote, lastSweep, faults>>

\* The loop over one listing: every listed path that is still a file and is
\* older than the threshold is unlinked and counted. An unlink that raises
\* ends the sweep with a 500, after any of the other old files of the listing
\* were visited (glob's order is arbitrary).
VisitDir(r) ==
    /\ CanRun(r)
    /\ task[r].pc \in {"visit_out", "visit_temp"}
    /\ LET t == task[r]
           old == {f \in fs : f.path \in t.listing
                              /\ IsOld(t.current_time, f.mtime)}
       IN \/ /\ fs' = fs \ old
             /\ Inject(0)
             /\ IF t.pc = "visit_out"
                THEN /\ Step(r, [t EXCEPT !.pc = "list_temp", !.listing = {},
                                          !.count = @ + Cardinality(old)])
                     /\ lastSweep' = lastSweep
                ELSE /\ Step(r, [t EXCEPT !.pc = "done", !.listing = {},
                            !.count = @ + Cardinality(old),
                            !.resp = [Success("Cleaned up files") EXCEPT
                                        !.count = t.count + Cardinality(old)]])
                     /\ lastSweep' = [ok |-> TRUE, time |-> t.current_time,
                                      fs |-> fs \ old]
          \/ \E f \in old : \E gone \in SUBSET (old \ {f}) :
             /\ fs' = fs \ gone
             /\ Inject(1)
             /\ Step(r, [t EXCEPT !.pc = "done", !.listing = {},
                                  !.count = @ + Cardinality(gone),
                                  !.resp = Error(500, "Cleanup failed")])
             /\ lastSweep' = [ok |-> FALSE, time |-> -1, fs |-> {}]
    /\ UNCHANGED <<now, nextId, started, idLog, overwrote>>

\* ------------------------------------------------------------------ clock
\* Time passes in steps of an hour; no uninterrupted run of a handler (the
\* statements between two awaits) lasts that long.
Tick ==
    /\ loop = 0
    /\ now + TickStep <= AGE_LIMIT + MaxTicks * TickStep
    /\ now' = now + TickStep
    /\ UNCHANGED <<fs, nextId, loop, task, started, idLog, overwrote, lastSweep, faults>>

Next ==
    \/ \E r \in Req : StartGenerateToy(r)
    \/ \E r \in Req : StartGenerateImageOnly(r)
    \/ \E r \in Req : StartImageTo3d(r)
    \/ \E r \in Req : StartCleanup(r)
    \/ \E r \in Req : AfterReadPerson(r)
    \/ \E r \in Req : AfterReadStyle(r)
    \/ \E r \in Req : AfterReadInput(r)
    \/ \E r \in Req : AnalyzePerson(r)
    \/ \E r \in Req : AnalyzeStyle(r)
    \/ \E r \in Req : GenerateToyImage(r)
    \/ \E r \in Req : Generate3D(r)
    \/ \E r \in Req : Finally(r)
    \/ \E r \in Req : Recycle(r)
    \/ \E r \in Req : ListDir(r)
    \/ \E r \in Req : VisitDir(r)
    \/ Tick

Spec == Init /\ [][Next]_vars


\* ================================================================ claims
Done(r) == task[r].pc = "done"

\* Whether some upload of the request declares a media type that does not
\* start with "image/".
DeclaresNonImage(t) ==
    \/ ~StartsWithImage(t.person_ct)
    \/ t.ep # "image-to-3d" /\ ~StartsWithImage(t.style_ct)

Keys(files) == {e.key : e \in files}

Kinds(paths) == {p.kind : p \in paths}

StageOrder == <<"analyze_person_image", "analyze_toy_style",
                "generate_toy_image", "generate_3d_model">>

\* C1: a request to an upload endpoint with an upload whose declared media
\* type is not an image ends with a 400, without any service method having
\* been invoked and without any file written to the output directory. (It is
\* stated for the behaviours in which no call raises, so that a violation
\* shows the handler itself going on.)
C1_NonImageRejected ==
    \A r \in Req :
        LET t == task[r] IN
        (Done(r) /\ t.ep \in UploadEps /\ DeclaresNonImage(t) /\ faults = 0)
            => /\ t.resp.status = 400
               /\ t.calls = <<>>
               /\ t.written = {}

\* C2 as stated: once a request to an upload endpoint has completed, none of
\* its scratch paths exists.
C2_ScratchGone ==
    \A r \in Req :
        LET t == task[r] IN
        (Done(r) /\ t.ep \in UploadEps)
            => \A p \in Range(t.temp_files) : ~Exists(fs, p)

\* C2 as amended: when the finally block of a request has run, every scratch
\* path of the request either no longer exists or is one whose unlink
\* raised, and the finally block has left the response as it was.
C2_ScratchGoneUnlessUnlinkFailed ==
    [][\A r \in Req :
        (task[r].pc = "finally" /\ task'[r].pc = "done"
         /\ task[r].ep \in UploadEps)
            => /\ task'[r].resp = task[r].resp
               /\ \A p \in Range(task[r].temp_files) :
                    Exists(fs', p) => p \in task'[r].unlink_failed]_vars

\* A request that wrote both scratch files has completed with one left
\* behind by a failed unlink.
C2_Witness ==
    \E r \in Req :
        /\ Done(r)
        /\ Len(task[r].temp_files) = 2
        /\ task[r].unlink_failed # {}
        /\ \E p \in Range(task[r].temp_files) : ~Exists(fs, p)

\* The files of a listing that are older than the threshold at time ct.
Aged(F, ct) == {f \in F : ct - f.mtime > AGE_LIMIT}

\* C3 as stated: DELETE /cleanup deletes exactly the files older than 3600
\* seconds and returns their number; a second invocation right after it
\* deletes nothing and reports 0.
C3_SweepExact ==
    \A r \in Req :
        LET t == task[r] IN
        (Done(r) /\ t.ep = "cleanup")
            => /\ fs = t.fs0 \ Aged(t.fs0, t.current_time)
               /\ t.resp.status = 200
               /\ t.resp.count = Cardinality(Aged(t.fs0, t.current_time))
               /\ t.repeat => (t.resp.count = 0 /\ fs = t.fs0)

\* C3 as amended: DELETE /cleanup deletes only files older than 3600
\* seconds; unless an unlink raises (the sweep then stops with a 500) it
\* deletes all of them and returns their number; a second invocation right
\* after one that returned deletes nothing and reports 0.
C3_SweepExactUnlessUnlinkFails ==
    \A r \in Req :
        LET t == task[r] IN
        (Done(r) /\ t.ep = "cleanup")
            => /\ fs \subseteq t.fs0
               /\ t.fs0 \ fs \subseteq Aged(t.fs0, t.current_time)
               /\ t.resp.status \in {200, 500}
               /\ t.resp.status = 200
                    => /\ fs = t.fs0 \ Aged(t.fs0, t.current_time)
                       /\ t.resp.count = Cardinality(t.fs0 \ fs)
               /\ t.resp.status = 500
                    => /\ t.resp.detail = "Cleanup failed"
                       /\ Aged(fs, t.current_time) # {}
               /\ t.repeat => /\ t.resp.status = 200
                              /\ t.resp.count = 0
                              /\ fs = t.fs0

\* A sweep has returned after deleting an old file from each directory and
\* leaving a newer file in place.
C3_Witness ==
    \E r \in Req :
        LET t == task[r] IN
        /\ Done(r) /\ t.ep = "cleanup"
        /\ t.resp.status = 200 /\ t.resp.count = 2
        /\ \E f \in t.fs0 \ fs : f.path.dir = OUTPUT_DIR
        /\ \E f \in t.fs0 \ fs : f.path.dir = TEMP_DIR
        /\ fs # {}

\* A second sweep has returned right after a first one.
C3_RepeatReached ==
    \E r \in Req : Done(r) /\ task[r].ep = "cleanup" /\ task[r].repeat

\* C4: "all" requests gaussian, radiance_field and mesh from the pipeline; a
\* single format requests only itself, and then point-cloud and preview
\* files appear only for gaussian and a GLB file only for mesh, in the
\* result's mapping and on disk.
C4_FormatSelection ==
    \A r \in Req :
        LET t == task[r]
            reconFiles == Kinds(t.written) \ {"generated_toy"}
        IN
        (t.pc \in {"finally", "done"} /\ t.formats # <<>>)
            => /\ t.output_format = "all"
                    => t.formats = <<"gaussian", "radiance_field", "mesh">>
               /\ t.output_format \in KnownFormats
                    => /\ t.formats = <<t.output_format>>
                       /\ t.output_format # "gaussian"
                            => /\ Keys(t.resp.files) \cap {"ply", "preview_video"} = {}
                               /\ reconFiles \cap {"ply", "preview"} = {}
                       /\ t.output_format # "mesh"
                            => /\ "glb" \notin Keys(t.resp.files)
                               /\ "glb" \notin reconFiles

\* A mesh-only reconstruction has returned a GLB file although the pipeline
\* also returned a gaussian output.
C4_Witness ==
    \E r \in Req :
        LET t == task[r] IN
        /\ Done(r) /\ t.output_format = "mesh"
        /\ "gaussian" \in t.outputs
        /\ Keys(t.resp.files) = {"glb"}

\* C5: when the pipeline returned a mesh and its export raised, the result
\* is still a success with a model identifier, has no "glb" entry and keeps
\* the "ply" and "preview_video" entries of the gaussian output.
C5_GlbFailureNonFatal ==
    \A r \in Req :
        LET t == task[r] IN
        (t.pc \in {"finally", "done"} /\ t.glb_raised)
            => /\ t.resp.status = 200
               /\ t.resp.model_id >= 0
               /\ "glb" \notin Keys(t.resp.files)
               /\ ("gaussian" \in Range(t.formats) /\ "gaussian" \in t.outputs)
                    => /\ {"ply", "preview_video"} \subseteq Keys(t.resp.files)
                       /\ \A e \in t.resp.files : Exists(fs, e.path)

\* An "all" reconstruction whose GLB export raised has returned with its
\* gaussian files.
C5_Witness ==
    \E r \in Req :
        LET t == task[r] IN
        /\ Done(r) /\ t.glb_raised /\ t.output_format = "all"
        /\ Keys(t.resp.files) = {"ply", "preview_video"}

\* C6: the "formats" list of a successful result holds only formats for
\* which the pipeline returned an output and, for gaussian and mesh, whose
\* files are in the result's mapping.
C6_FormatsActuallyGenerated ==
    \A r \in Req :
        LET t == task[r] IN
        (Done(r) /\ t.resp.status = 200 /\ t.resp.model_id >= 0)
            => \A f \in Range(t.resp.formats) :
                /\ f \in t.outputs
                /\ f = "gaussian" => "ply" \in Keys(t.resp.files)
                /\ f = "mesh" => "glb" \in Keys(t.resp.files)

\* C7: the identifiers generated for output files are pairwise different,
\* every returned model identifier is one of them, output files carry only
\* such identifiers, and no write to the output directory hits an existing
\* path.
C7_FreshIds ==
    /\ \A i \in 1..Len(idLog) : \A j \in 1..Len(idLog) :
            i # j => idLog[i] # idLog[j]
    /\ ~overwrote
    /\ \A r \in Req : task[r].resp.model_id >= 0
            => task[r].resp.model_id = idLog[Len(idLog)]
    /\ \A f \in fs : f.path.dir = OUTPUT_DIR => f.path.id \in Range(idLog)

\* Two full-pipeline requests have completed: four identifiers were drawn
\* after the one of the file left by the earlier run.
C7_Witness ==
    /\ Len(idLog) = 5
    /\ \E r \in Req : Done(r) /\ task[r].resp.model_id = idLog[5]

\* C8: a step that removes a file from the output directory is a step of
\* the sweep of DELETE /cleanup, and when a request completes every output
\* file it wrote is still there.
C8_OnlySweepDeletesOutputs ==
    [][/\ \A f \in fs :
            (f.path.dir = OUTPUT_DIR /\ ~Exists(fs', f.path))
                => \E r \in Req : /\ task[r].ep = "cleanup"
                                  /\ task[r].pc = "visit_out"
                                  /\ task'[r].pc # "visit_out"
       /\ \A r \in Req :
            (task'[r].pc = "done" /\ task[r].pc # "done")
                => \A p \in task'[r].written : Exists(fs', p)]_vars

\* A request has failed in the preview rendering and its synthesized image
\* and point-cloud file are still in the output directory.
C8_Witness ==
    \E r \in Req :
        LET t == task[r] IN
        /\ Done(r) /\ t.resp.status = 500
        /\ Kinds(t.written) = {"generated_toy", "ply"}
        /\ \A p \in t.written : Exists(fs, p)

\* C9: in POST /generate-toy the service methods are invoked in the order
\* person, style, synthesis, reconstruction, each at most once and only
\* after the one before returned; when one raises no other is invoked and
\* the response is a 500 with that method's message; a 200 follows four
\* calls that returned.
C9_StagesInOrder ==
    \A r \in Req :
        LET t == task[r]
            c == t.calls
            n == Len(c)
        IN
        t.ep = "generate-toy"
            => /\ n <= 4
               /\ \A i \in 1..n : c[i].stage = StageOrder[i]
               /\ \A i \in 1..n : i < n => c[i].ok
               /\ (n > 0 /\ ~c[n].ok)
                    => /\ t.pc \in {"finally", "done"}
                       /\ t.resp = Error(500, ErrDetail(c[n].stage))
               /\ (Done(r) /\ t.resp.status = 200)
                    => (n = 4 /\ c[4].ok)

\* A full-pipeline request has ended with the synthesis failing: the
\* reconstruction was never invoked.
C9_Witness ==
    \E r \in Req :
        LET t == task[r] IN
        /\ Done(r) /\ t.ep = "generate-toy"
        /\ Len(t.calls) = 3 /\ ~t.calls[3].ok
        /\ t.resp.status = 500

\* The positions of a handler between its awaits and its return.
Running == {"person", "style", "synth", "recon", "finally", "done",
            "list_out", "visit_out", "list_temp", "visit_temp"}

\* C10: a handler that is past its upload reads, or DELETE /cleanup anywhere
\* in its body, is the coroutine the loop is running, so at most one request
\* is inside a model or pipeline call; and every path the sweep has listed
\* still exists while it visits the listing.
C10_NoInterleaving ==
    /\ \A r \in Req : task[r].pc \in Running => loop = r
    /\ Cardinality({r \in Req :
            task[r].pc \in {"person", "style", "synth", "recon"}}) <= 1
    /\ \A r \in Req : task[r].pc \in {"visit_out", "visit_temp"}
            => \A p \in task[r].listing : Exists(fs, p)

\* One request is inside the reconstruction while another is suspended in
\* an upload read.
C10_Witness ==
    \E r \in Req : \E q \in Req :
        /\ task[r].pc = "recon"
        /\ task[q].pc \in {"read_person", "read_style", "read_input"}

\* The sweep is visiting a listing that holds the scratch file of a request
\* suspended in an upload read.
C10_SweepBesideRequest ==
    \E r \in Req : \E q \in Req :
        /\ task[r].pc = "visit_temp"
        /\ task[q].pc \in {"read_person", "read_style", "read_input"}
        /\ task[q].temp_files[1] \in task[r].listing

====
